---- MODULE Spec2Model ----
(***************************************************************************)
(* Model of the conversation agent: ConversationMemory (utils/memory.py),  *)
(* the tool-call interpreter and the Agent orchestration (agent.py), and   *)
(* the three tools (tools/*.py).                                           *)
(*                                                                         *)
(* A text is a sequence of pieces whose concatenation is the Python str.   *)
(* Text coming from the provider or the user is written one character per  *)
(* piece, so that the regular expression, split and strip work on          *)
(* characters; literal text produced by the program is written as longer   *)
(* pieces.                                                                 *)
(***************************************************************************)
EXTENDS Integers, Sequences, FiniteSets, TLC

VARIABLES
    max_history,    \* ConversationMemory.max_history
    messages,       \* ConversationMemory.messages
    metadata,       \* ConversationMemory.metadata
    now,            \* the clock datetime.now() reads: one tick per reading
    tools,          \* Agent.tools: the classes of the roster, in order
    system_prompt,  \* Agent.system_prompt
    ctor,           \* the arguments the Agent was constructed with
    gens,           \* the generators returned by chat(stream=True), in call order
    last,           \* the most recent call and what its caller observed
    disk            \* the conversation file

vars == <<max_history, messages, metadata, now, tools, system_prompt, ctor,
          gens, last, disk>>

(* ------------------------------ bounds -------------------------------- *)

\* max_history ranges over 0..MaxH
MaxH == 1
\* no operation starts once the logical clock has reached MaxClock
MaxClock == 9
\* number of streaming generators created in one run
MaxStreams == 1
\* length of the argument texts tried on the interpreter
MaxArgLen == 4

(* ------------------------------- text --------------------------------- *)

NL == "\n"
SQ == "'"
DQ == "\""

Lower == {"a","b","c","d","e","f","g","h","i","j","k","l","m",
          "n","o","p","q","r","s","t","u","v","w","x","y","z"}
Upper == {"A","B","C","D","E","F","G","H","I","J","K","L","M",
          "N","O","P","Q","R","S","T","U","V","W","X","Y","Z"}
Digits == {"0","1","2","3","4","5","6","7","8","9"}

\* the class \w of the re module
WordChars == Lower \cup Upper \cup Digits \cup {"_"}
\* the class \s of the re module, and the characters str.strip() removes
SpaceChars == {" ", "\t", "\n", "\r", "\f"}

RECURSIVE Concat(_)
\* "".join(ts) for a sequence of texts
Concat(ts) == IF ts = <<>> THEN <<>> ELSE Head(ts) \o Concat(Tail(ts))

RECURSIVE Join(_, _)
\* sep.join(ts) for a sequence of texts
Join(sep, ts) ==
    IF ts = <<>> THEN <<>>
    ELSE IF Len(ts) = 1 THEN ts[1]
    ELSE ts[1] \o sep \o Join(sep, Tail(ts))

\* t[i:] for 1-based i in 1..Len(t)+1
From(t, i) == SubSeq(t, i, Len(t))

\* does text t carry the pieces of lit at position i?
StartsAt(t, i, lit) ==
    /\ i + Len(lit) - 1 <= Len(t)
    /\ SubSeq(t, i, i + Len(lit) - 1) = lit

\* lit in t
Contains(t, lit) == \E i \in 1..(Len(t) + 1) : StartsAt(t, i, lit)

(* ------------------------ ConversationMemory -------------------------- *)

Roles == {"system", "user", "assistant"}

\* Python's seq[start:] for an integer start (negative counts from the end;
\* -0 is 0, so seq[-0:] is the whole sequence)
PySliceFrom(s, start) ==
    LET n == Len(s)
        lo == IF start < 0 THEN (IF n + start < 0 THEN 0 ELSE n + start)
              ELSE (IF start > n THEN n ELSE start)
    IN  SubSeq(s, lo + 1, n)

\* a trimming that spares a system message at the front
Trim_keepsSystem(ms, H) ==
    IF Len(ms) > H * 2
    THEN IF ms[1].role = "system"
         THEN <<ms[1]>> \o PySliceFrom(ms, -(H * 2 - 1))
         ELSE PySliceFrom(ms, -(H * 2))
    ELSE ms

\* the trimming step of add_message
Trim(ms, H) == IF Len(ms) > H * 2 THEN PySliceFrom(ms, -(H * 2)) ELSE ms

\* dict[key] = value on a dict kept as a function of its keys
DictSet(d, key, value) ==
    [k \in (DOMAIN d) \cup {key} |-> IF k = key THEN value ELSE d[k]]

\* ConversationMemory.add_message on the memory fields M = [messages,
\* metadata, now]: two readings of the clock, one for the timestamp and one
\* for updated_at, then the trimming step
add_message(M, H, role, content) ==
    [messages |-> Trim(Append(M.messages, [role |-> role, content |-> content,
                                            timestamp |-> M.now]), H),
     metadata |-> DictSet(M.metadata, "updated_at", M.now + 1),
     now |-> M.now + 2]

\* a context taken before the newest message was stored
get_context_skipsNewest(ms) ==
    [i \in 1..(Len(ms) - 1) |-> [role |-> ms[i].role, content |-> ms[i].content]]

\* ConversationMemory.get_context
get_context(ms) ==
    [i \in 1..Len(ms) |-> [role |-> ms[i].role, content |-> ms[i].content]]

\* the metadata written by __init__ and clear: two readings of the clock
FreshMetadata(clk) == [created_at |-> clk, updated_at |-> clk + 1]

\* ConversationMemory.clear on the memory fields
clear(M) == [messages |-> <<>>, metadata |-> FreshMetadata(M.now), now |-> M.now + 2]

\* the memory fields of the current state, and their assignment
Mem == [messages |-> messages, metadata |-> metadata, now |-> now]
SetMem(M) == /\ messages' = M.messages
             /\ metadata' = M.metadata
             /\ now' = M.now

(* ----------------------- tool-call interpreter ------------------------ *)

\* the literal "TOOL_CALL:" tested by chat and _stream_response and opening
\* the pattern of _handle_tool_call
MARKER == <<"T","O","O","L","_","C","A","L","L",":">>

RECURSIVE SkipWhile(_, _, _)
\* the first position at or after i whose character is not in cs
SkipWhile(t, i, cs) ==
    IF i <= Len(t) /\ t[i] \in cs THEN SkipWhile(t, i + 1, cs) ELSE i

\* the greedy group (.*) in its place: the last ")" of the line that holds
\* position i, or where the line ends if it has none
FindStop_last(t, i) ==
    LET eol == {q \in i..Len(t) : t[q] = NL}
        stop == IF eol = {} THEN Len(t) + 1
                ELSE CHOOSE q \in eol : \A r \in eol : q <= r
        closers == {q \in i..(stop - 1) : t[q] = ")"}
    IN  IF closers = {} THEN stop
        ELSE CHOOSE q \in closers : \A r \in closers : r <= q

RECURSIVE FindStop(_, _)
\* the first position at or after i holding ")" or a newline (Len(t)+1 if none):
\* where the lazy group (.*?) followed by \) stops or fails
FindStop(t, i) ==
    IF i > Len(t) \/ t[i] \in {")", NL} THEN i ELSE FindStop(t, i + 1)

\* one attempt of the pattern  TOOL_CALL:\s*(\w+)\((.*?)\)  at position i
MatchAt(t, i) ==
    LET j == SkipWhile(t, i + Len(MARKER), SpaceChars)
        k == SkipWhile(t, j, WordChars)
        p == FindStop(t, k + 1)
        ok == /\ StartsAt(t, i, MARKER)
              /\ k > j
              /\ k <= Len(t) /\ t[k] = "("
              /\ p <= Len(t) /\ t[p] = ")"
    IN  IF ok THEN [ok |-> TRUE, tool_name |-> SubSeq(t, j, k - 1),
                    params_str |-> SubSeq(t, k + 1, p - 1), end |-> p + 1]
        ELSE [ok |-> FALSE, tool_name |-> <<>>, params_str |-> <<>>, end |-> i + 1]

RECURSIVE ScanFrom(_, _)
\* the non-overlapping matches found scanning left to right from position i
ScanFrom(t, i) ==
    IF i > Len(t) THEN <<>>
    ELSE LET Attempt(m) ==
                 IF m.ok
                 THEN <<[tool_name |-> m.tool_name, params_str |-> m.params_str]>>
                      \o ScanFrom(t, m.end)
                 ELSE ScanFrom(t, i + 1)
         IN  Attempt(MatchAt(t, i))

\* the matches taken from the right end of the text first
FindAll_lastFirst(response) ==
    LET found == ScanFrom(response, 1)
    IN  [i \in 1..Len(found) |-> found[Len(found) + 1 - i]]

\* re.findall(pattern, response)
FindAll(response) == ScanFrom(response, 1)

RECURSIVE LStrip(_, _)
LStrip(t, cs) == IF t # <<>> /\ t[1] \in cs THEN LStrip(Tail(t), cs) ELSE t

RECURSIVE RStrip(_, _)
RStrip(t, cs) ==
    IF t # <<>> /\ t[Len(t)] \in cs THEN RStrip(SubSeq(t, 1, Len(t) - 1), cs) ELSE t

\* str.strip(cs): every leading and trailing character of the set is removed
Strip(t, cs) == RStrip(LStrip(t, cs), cs)

\* the position of the first sep at or after i (Len(t)+1 if none)
RECURSIVE IndexOf(_, _, _)
IndexOf(t, i, sep) ==
    IF i > Len(t) \/ t[i] = sep THEN i ELSE IndexOf(t, i + 1, sep)

RECURSIVE Split(_, _)
\* str.split(sep) for a one-character sep
Split(t, sep) ==
    LET p == IndexOf(t, 1, sep)
    IN  IF p > Len(t) THEN <<t>>
        ELSE <<SubSeq(t, 1, p - 1)>> \o Split(From(t, p + 1), sep)

\* a dict of parameters is kept as its items in insertion order
HasKey(d, key) == \E i \in 1..Len(d) : d[i].key = key
DictGet(d, key) == d[CHOOSE i \in 1..Len(d) : d[i].key = key].value
\* an assignment that leaves a key already present alone
DictPut_keepsFirst(d, key, value) ==
    IF HasKey(d, key) THEN d ELSE Append(d, [key |-> key, value |-> value])

\* params[key] = value: a repeated key keeps its place and takes the new value
DictPut(d, key, value) ==
    IF HasKey(d, key)
    THEN [i \in 1..Len(d) |-> IF d[i].key = key
                              THEN [key |-> key, value |-> value] ELSE d[i]]
    ELSE Append(d, [key |-> key, value |-> value])

RECURSIVE ParseSegments(_, _)
\* the loop over params_str.split(','), starting from dict d
ParseSegments(segs, d) ==
    IF segs = <<>> THEN d
    ELSE LET param == Head(segs)
             p == IndexOf(param, 1, "=")
         IN  IF p <= Len(param)
             THEN ParseSegments(Tail(segs),
                      DictPut(d,
                              Strip(Strip(SubSeq(param, 1, p - 1), SpaceChars), {DQ, SQ}),
                              Strip(Strip(From(param, p + 1), SpaceChars), {DQ, SQ})))
             ELSE ParseSegments(Tail(segs), d)

\* the parameter parsing of _handle_tool_call
ParseParams(params_str) ==
    LET s == Strip(params_str, SpaceChars)
    IN  IF s # <<>> THEN ParseSegments(Split(s, ","), <<>>) ELSE <<>>

(* ------------------------------- json --------------------------------- *)

DigitSeq == <<"0","1","2","3","4","5","6","7","8","9">>
DigitVal(c) == (CHOOSE i \in 1..10 : DigitSeq[i] = c) - 1

RECURSIVE NatText(_)
NatText(n) == IF n < 10 THEN <<DigitSeq[n + 1]>>
              ELSE NatText(n \div 10) \o <<DigitSeq[(n % 10) + 1]>>

\* str(n) of an int, which is also its JSON form
IntText(n) == IF n < 0 THEN <<"-">> \o NatText(-n) ELSE NatText(n)

JStr(s) == [t |-> "str", v |-> s]
JInt(n) == [t |-> "int", v |-> n]
JBool(b) == [t |-> "bool", v |-> b]
JList(items) == [t |-> "list", v |-> items]
\* fields: a sequence of <<key, value>> in insertion order
JObj(fields) == [t |-> "obj", v |-> fields]

\* the escapes json.dumps applies inside a string, character by character
JsonEscape(s) ==
    [i \in 1..Len(s) |-> CASE s[i] = DQ -> "\\\""
                           [] s[i] = "\\" -> "\\\\"
                           [] s[i] = "\n" -> "\\n"
                           [] s[i] = "\r" -> "\\r"
                           [] s[i] = "\t" -> "\\t"
                           [] OTHER -> s[i]]

\* the reading of those escapes by json.load
JsonUnescape(s) ==
    [i \in 1..Len(s) |-> CASE s[i] = "\\\"" -> DQ
                           [] s[i] = "\\\\" -> "\\"
                           [] s[i] = "\\n" -> "\n"
                           [] s[i] = "\\r" -> "\r"
                           [] s[i] = "\\t" -> "\t"
                           [] OTHER -> s[i]]

RECURSIVE Indent(_)
\* the indentation of nesting depth d under indent=2
Indent(d) == IF d = 0 THEN <<>> ELSE <<"  ">> \o Indent(d - 1)

RECURSIVE JsonDump(_, _)
\* json.dumps(v, indent=2) at nesting depth d
JsonDump(v, d) ==
    CASE v.t = "str"  -> <<DQ>> \o JsonEscape(v.v) \o <<DQ>>
      [] v.t = "int"  -> IntText(v.v)
      [] v.t = "bool" -> IF v.v THEN <<"true">> ELSE <<"false">>
      [] v.t = "list" ->
            IF v.v = <<>> THEN <<"[]">>
            ELSE <<"[", NL>>
                 \o Join(<<",", NL>>,
                         [i \in 1..Len(v.v) |-> Indent(d + 1) \o JsonDump(v.v[i], d + 1)])
                 \o <<NL>> \o Indent(d) \o <<"]">>
      [] v.t = "obj"  ->
            IF v.v = <<>> THEN <<"{}">>
            ELSE <<"{", NL>>
                 \o Join(<<",", NL>>,
                         [i \in 1..Len(v.v) |->
                             Indent(d + 1) \o <<DQ>> \o JsonEscape(v.v[i][1]) \o <<DQ, ": ">>
                             \o JsonDump(v.v[i][2], d + 1)])
                 \o <<NL>> \o Indent(d) \o <<"}">>

(* ------------------------------- tools -------------------------------- *)

\* the tool classes of tools/__init__.py
ToolClasses == {"CalculatorTool", "WeatherTool", "WebSearchTool"}

\* BaseTool.name as set by each constructor
ToolName(c) ==
    CASE c = "CalculatorTool" -> <<"c","a","l","c","u","l","a","t","o","r">>
      [] c = "WeatherTool"    -> <<"w","e","a","t","h","e","r">>
      [] c = "WebSearchTool"  -> <<"w","e","b","_","s","e","a","r","c","h">>

\* BaseTool.description as set by each constructor
ToolDescription(c) ==
    CASE c = "CalculatorTool" ->
            <<"Performs mathematical calculations. Supports basic arithmetic operations.">>
      [] c = "WeatherTool"    -> <<"Gets current weather information for a location.">>
      [] c = "WebSearchTool"  -> <<"Searches the web for information on a given query.">>

P_expression == <<"e","x","p","r","e","s","s","i","o","n">>
P_location == <<"l","o","c","a","t","i","o","n">>
P_query == <<"q","u","e","r","y">>
P_num_results == <<"n","u","m","_","r","e","s","u","l","t","s">>

\* the parameters of each execute signature: required, then defaulted
Required(c) ==
    CASE c = "CalculatorTool" -> P_expression
      [] c = "WeatherTool"    -> P_location
      [] c = "WebSearchTool"  -> P_query
Defaulted(c) == IF c = "WebSearchTool" THEN {P_num_results} ELSE {}

\* the TypeError of the call tool.execute(**params) when the keywords do not
\* fit the signature (message as CPython 3.11 words it), <<>> when they fit
BindError(c, params) ==
    LET accepted == {Required(c)} \cup Defaulted(c)
        bad == {i \in 1..Len(params) : params[i].key \notin accepted}
    IN  IF bad # {}
        THEN LET i == CHOOSE x \in bad : \A y \in bad : x <= y
             IN  <<c, ".execute() got an unexpected keyword argument '">>
                 \o params[i].key \o <<SQ>>
        ELSE IF ~HasKey(params, Required(c))
        THEN <<c, ".execute() missing 1 required positional argument: '">>
             \o Required(c) \o <<SQ>>
        ELSE <<>>

\* allowed_chars of CalculatorTool.execute
allowed_chars == Digits \cup {"+", "-", "*", "/", "(", ")", ".", " "}

RECURSIVE ParenScan(_, _, _)
\* the bracket check of the Python tokenizer: "unmatched" at the first ")"
\* without an open "(", "unclosed" when a "(" is still open at the end
ParenScan(s, i, depth) ==
    IF i > Len(s) THEN (IF depth > 0 THEN "unclosed" ELSE "ok")
    ELSE IF s[i] = "(" THEN ParenScan(s, i + 1, depth + 1)
    ELSE IF s[i] = ")" THEN (IF depth = 0 THEN "unmatched"
                             ELSE ParenScan(s, i + 1, depth - 1))
    ELSE ParenScan(s, i + 1, depth)

RECURSIVE NatVal(_, _)
\* the value of a run of decimal digits, most significant first
NatVal(ds, acc) ==
    IF ds = <<>> THEN acc ELSE NatVal(Tail(ds), acc * 10 + DigitVal(Head(ds)))

PFail(i) == [ok |-> FALSE, val |-> 0, pos |-> i]
POk(v, i) == [ok |-> TRUE, val |-> v, pos |-> i]

RECURSIVE PExpr(_, _), PExprTail(_, _, _), PTerm(_, _), PTermTail(_, _, _), PFactor(_, _)

\* factor: integer literal, parenthesised expression, or signed factor
PFactor(s, i0) ==
    LET Literal(i, e, ds, n) ==
            IF Len(ds) > 1 /\ ds[1] = "0" /\ n # 0 THEN PFail(i) ELSE POk(n, e)
        Digit(i, e) == Literal(i, e, SubSeq(s, i, e - 1), NatVal(SubSeq(s, i, e - 1), 0))
        Closing(r, j) ==
            IF r.ok /\ j <= Len(s) /\ s[j] = ")" THEN POk(r.val, j + 1) ELSE PFail(j)
        Paren(r) == Closing(r, SkipWhile(s, r.pos, {" "}))
        Signed(i, r) ==
            IF r.ok THEN POk(IF s[i] = "-" THEN -r.val ELSE r.val, r.pos) ELSE r
        At(i) ==
            IF i > Len(s) THEN PFail(i)
            ELSE IF s[i] \in Digits THEN Digit(i, SkipWhile(s, i, Digits))
            ELSE IF s[i] = "(" THEN Paren(PExpr(s, i + 1))
            ELSE IF s[i] \in {"+", "-"} THEN Signed(i, PFactor(s, i + 1))
            ELSE PFail(i)
    IN  At(SkipWhile(s, i0, {" "}))

PTermTail(s, acc, i0) ==
    LET Times(r) == IF r.ok THEN PTermTail(s, acc * r.val, r.pos) ELSE r
        At(i) == IF i <= Len(s) /\ s[i] = "*" THEN Times(PFactor(s, i + 1))
                 ELSE POk(acc, i)
    IN  At(SkipWhile(s, i0, {" "}))

PTerm(s, i) ==
    LET Then(r) == IF r.ok THEN PTermTail(s, r.val, r.pos) ELSE r
    IN  Then(PFactor(s, i))

PExprTail(s, acc, i0) ==
    LET Plus(i, r) ==
            IF r.ok
            THEN PExprTail(s, IF s[i] = "+" THEN acc + r.val ELSE acc - r.val, r.pos)
            ELSE r
        At(i) == IF i <= Len(s) /\ s[i] \in {"+", "-"} THEN Plus(i, PTerm(s, i + 1))
                 ELSE POk(acc, i)
    IN  At(SkipWhile(s, i0, {" "}))

PExpr(s, i) ==
    LET Then(r) == IF r.ok THEN PExprTail(s, r.val, r.pos) ELSE r
    IN  Then(PTerm(s, i))

\* eval(expression) for integer arithmetic: integer literals, + - *, signs,
\* parentheses and spaces. [ok, val] on success, [ok = FALSE, error] with the
\* text of the SyntaxError otherwise. Division, powers, decimal points, calls
\* and the empty tuple are not covered; no text of the model uses them.
PyEval(expression) ==
    LET Result(r, paren, blank) ==
            IF paren = "unmatched"
            THEN [ok |-> FALSE, val |-> 0, error |-> <<"unmatched ')' (<string>, line 1)">>]
            ELSE IF paren = "unclosed"
            THEN [ok |-> FALSE, val |-> 0, error |-> <<"'(' was never closed (<string>, line 1)">>]
            ELSE IF blank
            THEN [ok |-> FALSE, val |-> 0, error |-> <<"invalid syntax (<string>, line 0)">>]
            ELSE IF r.ok /\ r.pos > Len(expression)
            THEN [ok |-> TRUE, val |-> r.val, error |-> <<>>]
            ELSE [ok |-> FALSE, val |-> 0, error |-> <<"invalid syntax (<string>, line 1)">>]
    IN  Result(PExpr(expression, 1), ParenScan(expression, 1, 0),
               SkipWhile(expression, 1, {" "}) > Len(expression))

\* CalculatorTool.execute(expression): the result dict
CalculatorExecute(expression) ==
    IF \E i \in 1..Len(expression) : expression[i] \notin allowed_chars
    THEN JObj(<< <<<<"success">>, JBool(FALSE)>>,
                 <<<<"error">>, JStr(<<"Invalid characters in expression">>)>> >>)
    ELSE LET Evaluated(r) ==
                 IF r.ok
                 THEN JObj(<< <<<<"success">>, JBool(TRUE)>>,
                              <<<<"expression">>, JStr(expression)>>,
                              <<<<"result">>, JInt(r.val)>> >>)
                 ELSE JObj(<< <<<<"success">>, JBool(FALSE)>>,
                              <<<<"error">>, JStr(r.error)>> >>)
         IN  Evaluated(PyEval(expression))

UpperSeq == <<"A","B","C","D","E","F","G","H","I","J","K","L","M",
              "N","O","P","Q","R","S","T","U","V","W","X","Y","Z">>
LowerSeq == <<"a","b","c","d","e","f","g","h","i","j","k","l","m",
              "n","o","p","q","r","s","t","u","v","w","x","y","z">>

\* str.lower()
ToLower(s) ==
    [i \in 1..Len(s) |-> IF s[i] \in Upper
                         THEN LowerSeq[CHOOSE k \in 1..26 : UpperSeq[k] = s[i]]
                         ELSE s[i]]

\* mock_weather of WeatherTool.execute, in its order
mock_weather ==
    << [city |-> <<"n","e","w"," ","y","o","r","k">>, temp |-> 72,
        condition |-> <<"Sunny">>, humidity |-> 45],
       [city |-> <<"l","o","n","d","o","n">>, temp |-> 62,
        condition |-> <<"Cloudy">>, humidity |-> 70],
       [city |-> <<"t","o","k","y","o">>, temp |-> 78,
        condition |-> <<"Clear">>, humidity |-> 55],
       [city |-> <<"p","a","r","i","s">>, temp |-> 68,
        condition |-> <<"Partly Cloudy">>, humidity |-> 60],
       [city |-> <<"s","y","d","n","e","y">>, temp |-> 75,
        condition |-> <<"Sunny">>, humidity |-> 50] >>

\* WeatherTool.execute(location): the result dict
WeatherExecute(location) ==
    LET location_lower == ToLower(location)
        hits == {i \in 1..Len(mock_weather) : mock_weather[i].city = location_lower}
    IN  IF hits # {}
        THEN LET weather == mock_weather[CHOOSE i \in hits : TRUE]
             IN  JObj(<< <<<<"success">>, JBool(TRUE)>>,
                         <<<<"location">>, JStr(location)>>,
                         <<<<"temperature">>, JInt(weather.temp)>>,
                         <<<<"condition">>, JStr(weather.condition)>>,
                         <<<<"humidity">>, JInt(weather.humidity)>>,
                         <<<<"note">>, JStr(<<"This is mock data. Integrate a real weather API for production use.">>)>> >>)
        ELSE JObj(<< <<<<"success">>, JBool(FALSE)>>,
                     <<<<"error">>, JStr(<<"Weather data not available for ">> \o location)>>,
                     <<<<"note">>, JStr(<<"This is a mock implementation. Use a real weather API like OpenWeatherMap.">>)>> >>)

\* WebSearchTool.execute(query, num_results): the result dict; num_results is
\* a JSON value, the int 3 by default and a str when the call passes it
WebSearchExecute(query, num_results) ==
    JObj(<< <<<<"success">>, JBool(TRUE)>>,
            <<<<"query">>, JStr(query)>>,
            <<<<"num_results">>, num_results>>,
            <<<<"results">>, JList(<<
                JObj(<< <<<<"title">>, JStr(<<"Result 1 for '">> \o query \o <<SQ>>)>>,
                        <<<<"url">>, JStr(<<"https://example.com/result1">>)>>,
                        <<<<"snippet">>, JStr(<<"This is a mock search result. Integrate a real search API for production use.">>)>> >>),
                JObj(<< <<<<"title">>, JStr(<<"Result 2 for '">> \o query \o <<SQ>>)>>,
                        <<<<"url">>, JStr(<<"https://example.com/result2">>)>>,
                        <<<<"snippet">>, JStr(<<"Another mock result demonstrating the tool interface.">>)>> >>) >>)>>,
            <<<<"note">>, JStr(<<"This is mock data. Integrate a real search API like DuckDuckGo or SerpApi for production use.">>)>> >>)

\* tool.execute(**params) for a tool of class c: [raised, message] when the
\* call raises, [~raised, result] with the result dict otherwise
Execute(c, params) ==
    LET Bound(err) ==
            IF err # <<>> THEN [raised |-> TRUE, message |-> err, result |-> JObj(<<>>)]
            ELSE [raised |-> FALSE, message |-> <<>>,
                  result |->
                    CASE c = "CalculatorTool" -> CalculatorExecute(DictGet(params, P_expression))
                      [] c = "WeatherTool"    -> WeatherExecute(DictGet(params, P_location))
                      [] c = "WebSearchTool"  ->
                            WebSearchExecute(DictGet(params, P_query),
                                             IF HasKey(params, P_num_results)
                                             THEN JStr(DictGet(params, P_num_results))
                                             ELSE JInt(3))]
    IN  Bound(BindError(c, params))

\* next((t for t in self.tools if t.name == tool_name), None): the position of
\* the first tool of the roster with that name, 0 for None
FindTool(roster, tool_name) ==
    LET hits == {i \in 1..Len(roster) : ToolName(roster[i]) = tool_name}
    IN  IF hits = {} THEN 0 ELSE CHOOSE i \in hits : \A j \in hits : i <= j

\* an iteration without the handlers: an unknown tool and a raising execute
\* leave the loop as exceptions
CallOutcome_propagates(roster, tool_name, params_str) ==
    LET Ran(params, r) ==
            IF r.raised
            THEN [entry |-> <<>>, ran |-> TRUE, params |-> params, escaped |-> TRUE]
            ELSE [entry |-> <<"Tool ">> \o tool_name \o <<" result: ">>
                            \o JsonDump(r.result, 0),
                  ran |-> TRUE, params |-> params, escaped |-> FALSE]
        Parsed(k, params) == Ran(params, Execute(roster[k], params))
        Found(k) ==
            IF k = 0
            THEN [entry |-> <<>>, ran |-> FALSE, params |-> <<>>, escaped |-> TRUE]
            ELSE Parsed(k, ParseParams(params_str))
    IN  Found(FindTool(roster, tool_name))

\* one iteration of the loop of _handle_tool_call: the entry appended to
\* results, whether a tool ran (and with which parameters), and whether an
\* exception leaves the iteration
CallOutcome(roster, tool_name, params_str) ==
    LET Ran(params, r) ==
            IF r.raised
            THEN [entry |-> <<"Error executing ">> \o tool_name \o <<": ">> \o r.message,
                  ran |-> TRUE, params |-> params, escaped |-> FALSE]
            ELSE [entry |-> <<"Tool ">> \o tool_name \o <<" result: ">>
                            \o JsonDump(r.result, 0),
                  ran |-> TRUE, params |-> params, escaped |-> FALSE]
        Parsed(k, params) == Ran(params, Execute(roster[k], params))
        Found(k) ==
            IF k = 0
            THEN [entry |-> <<"Error: Tool '">> \o tool_name \o <<"' not found">>,
                  ran |-> FALSE, params |-> <<>>, escaped |-> FALSE]
            ELSE Parsed(k, ParseParams(params_str))
    IN  Found(FindTool(roster, tool_name))

\* the outcomes of the loop over matches, in loop order, up to and including
\* the first iteration an exception leaves
RECURSIVE Outcomes(_, _)
Outcomes(roster, matches) ==
    IF matches = <<>> THEN <<>>
    ELSE LET Then(o) ==
                 IF o.escaped THEN <<o>> ELSE <<o>> \o Outcomes(roster, Tail(matches))
         IN  Then(CallOutcome(roster, Head(matches).tool_name, Head(matches).params_str))

\* Agent._handle_tool_call(response): the returned text, the calls in the
\* order the loop took them, each with the entry it appended to results, and
\* whether an exception leaves the method
handle_tool_call(roster, response) ==
    LET Returned(outs, log) ==
            IF \E i \in 1..Len(outs) : outs[i].escaped
            THEN [text |-> <<>>, log |-> log, raised |-> TRUE]
            ELSE [text |-> response \o <<NL, NL>>
                           \o Join(<<NL>>, [i \in 1..Len(outs) |-> outs[i].entry]),
                  log |-> log, raised |-> FALSE]
        Looped(matches, outs) ==
            Returned(outs,
                     [i \in 1..Len(outs) |->
                         [tool_name |-> matches[i].tool_name,
                          params_str |-> matches[i].params_str, ran |-> outs[i].ran,
                          params |-> outs[i].params, entry |-> outs[i].entry]])
        Matched(matches) ==
            IF matches = <<>>
            THEN [text |-> response, log |-> <<>>, raised |-> FALSE]
            ELSE Looped(matches, Outcomes(roster, matches))
    IN  Matched(FindAll(response))

(* ------------------------------- inputs ------------------------------- *)

T_calculator == ToolName("CalculatorTool")
T_weather == ToolName("WeatherTool")

\* texts a provider may generate
R_plain == <<"H","e","l","l","o">>
R_calc == MARKER \o <<" ">> \o T_calculator \o <<"(">> \o P_expression
          \o <<"=","2","+","2",")">>
R_calls == <<"o","k"," ">> \o MARKER \o <<" ">> \o T_calculator \o <<"(">> \o P_expression
           \o <<"=","1","+","1",")"," ">>
           \o MARKER \o <<" ","n","o","p","e","(","x","=","1",")",NL>>
           \o MARKER \o T_weather \o <<"(",")",NL>>
           \o MARKER \o <<" ">> \o T_calculator \o <<"(","x","=","1",")",NL>>
           \o MARKER \o <<" ">> \o T_weather \o <<"(">> \o P_location
           \o <<"=","L","o","n","d","o","n",")">>
R_malformed == <<"s","e","e"," ">> \o MARKER \o <<" ","o","o","p","s">>

Responses == {R_plain, R_calc, R_calls, R_malformed}

\* messages a user may send
UserMessages == { <<"h","i">>, <<"2","+","2","?">> }

\* the fragments a provider streams: a text in one fragment, or cut in two
\* after its third character (inside the marker when the text opens with it)
Whole(text) == <<text>>
Cut(text) == <<SubSeq(text, 1, 3), From(text, 4)>>
Streams == { Cut(R_plain), Cut(R_calc), Whole(R_calls), Whole(R_malformed) }

\* the system_prompt argument of the constructor: absent (None), or a str
NoPrompt == [given |-> FALSE, text |-> <<>>]
CustomPrompt == <<"Be brief.">>
AllTools == <<"CalculatorTool", "WeatherTool", "WebSearchTool">>

\* the constructor arguments tried: tools (None and [] are both <<>>) and
\* system_prompt
Constructions ==
    { [tools |-> <<>>, system_prompt |-> NoPrompt],
      [tools |-> AllTools, system_prompt |-> NoPrompt],
      [tools |-> AllTools, system_prompt |-> [given |-> TRUE, text |-> CustomPrompt]],
      [tools |-> <<>>, system_prompt |-> [given |-> TRUE, text |-> <<>>]] }

(* ------------------------------- Agent -------------------------------- *)

\* default_prompt of Agent.__init__ for the tools argument
DefaultPrompt(roster) ==
    <<"You are a helpful AI assistant.">>
    \o (IF roster # <<>>
        THEN <<NL, NL, "You have access to the following tools:", NL>>
             \o Join(<<NL>>, [i \in 1..Len(roster) |->
                       <<"- ">> \o ToolName(roster[i]) \o <<": ">>
                       \o ToolDescription(roster[i])])
             \o <<NL, NL, "When you need to use a tool, respond with: ">> \o MARKER
             \o <<" {tool_name}({parameters})">>
        ELSE <<>>)

\* system_prompt or default_prompt: an absent or empty argument is falsy
ChoosePrompt(override, roster) ==
    IF override.given /\ override.text # <<>> THEN override.text
    ELSE DefaultPrompt(roster)

\* the test without its "self.tools and"
NeedsToolCall_ignoresRoster(roster, text) == Contains(text, MARKER)

\* the test guarding the interpreter in chat and _stream_response
NeedsToolCall(roster, text) == roster # <<>> /\ Contains(text, MARKER)

\* what a caller has observed of the most recent call
Call(op, message, t0, pre) ==
    [op |-> op, message |-> message, t0 |-> t0, pre |-> pre,
     error |-> "none", calls |-> 0, context |-> <<>>, response |-> <<>>,
     ret |-> <<>>, log |-> <<>>, loaded |-> <<>>]

\* every suspended generator sees that memory was changed behind its back
Touched(gs) ==
    [i \in 1..Len(gs) |-> [gs[i] EXCEPT !.clean = FALSE]]

\* the conversation file before anything was saved
NoFile == [exists |-> FALSE, metadata |-> FreshMetadata(0), messages |-> <<>>]

\* the state after Agent.__init__: a fresh ConversationMemory seeded with the
\* system message
Init ==
    \E H \in 0..MaxH, args \in Constructions :
       LET roster == args.tools
           override == args.system_prompt
           M0 == [messages |-> <<>>, metadata |-> FreshMetadata(0), now |-> 2]
           prompt == ChoosePrompt(override, roster)
           M1 == add_message(M0, H, "system", prompt)
       IN  /\ max_history = H
           /\ tools = roster
           /\ ctor = args
           /\ system_prompt = prompt
           /\ messages = M1.messages
           /\ metadata = M1.metadata
           /\ now = M1.now
           /\ gens = <<>>
           /\ last = Call("init", <<>>, 0, <<>>)
           /\ disk = NoFile

\* Agent.chat(message) with stream=False when provider.generate returns
Chat(message) ==
    /\ now < MaxClock
    /\ \E response \in Responses :
          LET Returns(M1, final, log) ==
                  /\ SetMem(add_message(M1, max_history, "assistant", final))
                  /\ last' = [Call("chat", message, now, messages) EXCEPT
                                 !.calls = 1, !.context = get_context(M1.messages),
                                 !.response = response, !.ret = final, !.log = log]
              Raises(M1, log) ==
                  /\ SetMem(M1)
                  /\ last' = [Call("chat", message, now, messages) EXCEPT
                                 !.calls = 1, !.context = get_context(M1.messages),
                                 !.response = response, !.error = "tool",
                                 !.log = log]
              Handled(M1, handled) ==
                  IF handled.raised THEN Raises(M1, handled.log)
                  ELSE Returns(M1, handled.text, handled.log)
              Generated(M1) ==
                  IF NeedsToolCall(tools, response)
                  THEN Handled(M1, handle_tool_call(tools, response))
                  ELSE Returns(M1, response, <<>>)
          IN  Generated(add_message(Mem, max_history, "user", message))
    /\ gens' = Touched(gens)
    /\ UNCHANGED <<max_history, tools, system_prompt, ctor, disk>>

\* Agent.chat(message) with stream=False when provider.generate raises
ChatProviderFails(message) ==
    /\ now < MaxClock
    /\ LET M1 == add_message(Mem, max_history, "user", message)
       IN  /\ SetMem(M1)
           /\ last' = [Call("chat", message, now, messages) EXCEPT
                          !.calls = 1, !.context = get_context(M1.messages),
                          !.error = "provider"]
    /\ gens' = Touched(gens)
    /\ UNCHANGED <<max_history, tools, system_prompt, ctor, disk>>

\* clear_history without the second statement
clear_history_noReseed ==
    /\ now < MaxClock
    /\ SetMem(clear(Mem))
    /\ last' = Call("clear_history", <<>>, now, messages)
    /\ gens' = Touched(gens)
    /\ UNCHANGED <<max_history, tools, system_prompt, ctor, disk>>

\* Agent.clear_history()
clear_history ==
    /\ now < MaxClock
    /\ SetMem(add_message(clear(Mem), max_history, "system", system_prompt))
    /\ last' = Call("clear_history", <<>>, now, messages)
    /\ gens' = Touched(gens)
    /\ UNCHANGED <<max_history, tools, system_prompt, ctor, disk>>

\* agent.memory.clear(): ConversationMemory.clear() called on its own
MemoryClear ==
    /\ now < MaxClock
    /\ SetMem(clear(Mem))
    /\ last' = Call("clear", <<>>, now, messages)
    /\ gens' = Touched(gens)
    /\ UNCHANGED <<max_history, tools, system_prompt, ctor, disk>>

(* ----------------------------- streaming ------------------------------ *)

\* the generator object _stream_response(messages) returns: nothing of its
\* body has run yet
NewGen(message, t0, pre, context) ==
    [status |-> "created", message |-> message, t0 |-> t0, pre |-> pre,
     context |-> context, pending |-> <<>>, emitted |-> <<>>,
     full_response |-> <<>>, tool_result |-> <<>>, yielded |-> <<>>,
     calls |-> 0, sent |-> <<>>, commits |-> 0, committed |-> <<>>, log |-> <<>>,
     error |-> "none", clean |-> TRUE]

\* a call of the provider that reads the memory when the first fragment is
\* pulled
CallProvider_readsMemory(g) ==
    [g EXCEPT !.calls = 1, !.sent = get_context(messages)]

\* self.provider.stream_generate(messages): the provider is called, once,
\* with the list chat handed to _stream_response
CallProvider(g) ==
    [g EXCEPT !.calls = 1, !.sent = g.context]

\* generators a caller can still pull from or drop
Live == {"created", "suspended", "tail"}

\* gens with generator i replaced by g and, when memory changed, the others
\* marked
PutGen(i, g, memoryChanged) ==
    [k \in 1..Len(gens) |->
        IF k = i THEN g
        ELSE IF memoryChanged THEN [gens[k] EXCEPT !.clean = FALSE]
        ELSE gens[k]]

\* Agent.chat(message, stream=True): the user message is appended and the
\* context taken now; the generator is returned unstarted
ChatStream(message) ==
    /\ now < MaxClock
    /\ Len(gens) < MaxStreams
    /\ LET M1 == add_message(Mem, max_history, "user", message)
           context == get_context(M1.messages)
       IN  /\ SetMem(M1)
           /\ gens' = Append(Touched(gens), NewGen(message, now, messages, context))
           /\ last' = [Call("chat_stream", message, now, messages) EXCEPT
                          !.context = context]
    /\ UNCHANGED <<max_history, tools, system_prompt, ctor, disk>>

\* "full_response = chunk" in place of "full_response += chunk"
YieldChunk_overwrites(g, chunk, rest) ==
    [g EXCEPT !.status = "suspended", !.pending = rest,
              !.emitted = Append(g.emitted, chunk),
              !.full_response = chunk,
              !.yielded = Append(g.yielded, chunk)]

\* the chunk handed to the caller at "yield chunk"
YieldChunk(g, chunk, rest) ==
    [g EXCEPT !.status = "suspended", !.pending = rest,
              !.emitted = Append(g.emitted, chunk),
              !.full_response = g.full_response \o chunk,
              !.yielded = Append(g.yielded, chunk)]

\* first next() on generator i: provider.stream_generate(messages) is called
\* and emits its first fragment
StreamStart(i) ==
    /\ gens[i].status = "created"
    /\ \E frags \in Streams :
          /\ gens' = PutGen(i, YieldChunk(CallProvider(gens[i]),
                                          Head(frags), Tail(frags)), FALSE)
          /\ last' = [Call("next", <<>>, now, messages) EXCEPT !.ret = Head(frags)]
    /\ UNCHANGED <<max_history, messages, metadata, now, tools, system_prompt,
                   ctor, disk>>

\* a later next() on generator i while the provider has a further fragment
StreamNext(i) ==
    /\ gens[i].status = "suspended"
    /\ gens[i].pending # <<>>
    /\ gens' = PutGen(i, YieldChunk(gens[i], Head(gens[i].pending),
                                    Tail(gens[i].pending)), FALSE)
    /\ last' = [Call("next", <<>>, now, messages) EXCEPT
                   !.ret = Head(gens[i].pending)]
    /\ UNCHANGED <<max_history, messages, metadata, now, tools, system_prompt,
                   ctor, disk>>

\* a provider failure handled by storing what was received so far
StreamProviderFails_commitsPartial(i) ==
    /\ gens[i].status \in {"created", "suspended"}
    /\ SetMem(add_message(Mem, max_history, "assistant", gens[i].full_response))
    /\ gens' = PutGen(i, [CallProvider(gens[i]) EXCEPT
                              !.status = "failed", !.error = "provider", !.commits = 1,
                              !.committed = gens[i].full_response], TRUE)
    /\ last' = [Call("next", <<>>, now, messages) EXCEPT !.error = "provider"]
    /\ UNCHANGED <<max_history, tools, system_prompt, ctor, disk>>

\* next() on generator i when the provider raises, at the call of
\* stream_generate or while the next fragment is awaited
StreamProviderFails(i) ==
    /\ gens[i].status \in {"created", "suspended"}
    /\ gens' = PutGen(i, [CallProvider(gens[i]) EXCEPT
                              !.status = "failed", !.error = "provider"], FALSE)
    /\ last' = [Call("next", <<>>, now, messages) EXCEPT !.error = "provider"]
    /\ UNCHANGED <<max_history, messages, metadata, now, tools, system_prompt,
                   ctor, disk>>

\* next() on generator i when the provider has no further fragment: the code
\* after the loop of _stream_response up to its next yield or its return
StreamEnd(i) ==
    /\ \/ gens[i].status = "suspended" /\ gens[i].pending = <<>>
       \/ gens[i].status = "created"
    /\ LET Handled(g, handled) ==
               IF handled.raised
               THEN /\ gens' = PutGen(i, [g EXCEPT !.status = "failed",
                                                   !.error = "tool",
                                                   !.log = handled.log], FALSE)
                    /\ last' = [Call("next", <<>>, now, messages) EXCEPT
                                   !.error = "tool"]
                    /\ UNCHANGED <<messages, metadata, now>>
               ELSE /\ gens' = PutGen(i,
                           [g EXCEPT !.status = "tail",
                                     !.tool_result = handled.text,
                                     !.log = handled.log,
                                     !.yielded = Append(g.yielded,
                                                        <<NL, NL>> \o handled.text)],
                           FALSE)
                    /\ last' = [Call("next", <<>>, now, messages) EXCEPT
                                   !.ret = <<NL, NL>> \o handled.text]
                    /\ UNCHANGED <<messages, metadata, now>>
           Exhausted(g, full_response) ==
               IF NeedsToolCall(tools, full_response)
               THEN Handled(g, handle_tool_call(tools, full_response))
               ELSE /\ SetMem(add_message(Mem, max_history, "assistant", full_response))
                    /\ gens' = PutGen(i, [g EXCEPT !.status = "done", !.commits = 1,
                                                   !.committed = full_response], TRUE)
                    /\ last' = [Call("next", <<>>, now, messages) EXCEPT
                                   !.error = "StopIteration"]
       IN  Exhausted(CallProvider(gens[i]), gens[i].full_response)
    /\ UNCHANGED <<max_history, tools, system_prompt, ctor, disk>>

\* next() on generator i suspended at the yield of the tool results: the
\* assistant message is appended and the generator returns
StreamTail(i) ==
    /\ gens[i].status = "tail"
    /\ LET g == gens[i]
           content == g.full_response \o <<NL, NL>> \o g.tool_result
       IN  /\ SetMem(add_message(Mem, max_history, "assistant", content))
           /\ gens' = PutGen(i, [g EXCEPT !.status = "done", !.commits = 1,
                                          !.committed = content], TRUE)
    /\ last' = [Call("next", <<>>, now, messages) EXCEPT !.error = "StopIteration"]
    /\ UNCHANGED <<max_history, tools, system_prompt, ctor, disk>>

\* a close that stores what was received so far (a "finally" around the loop)
Abandon_commitsPartial(i) ==
    /\ gens[i].status \in Live
    /\ SetMem(add_message(Mem, max_history, "assistant", gens[i].full_response))
    /\ gens' = PutGen(i, [gens[i] EXCEPT !.status = "closed", !.commits = 1,
                                         !.committed = gens[i].full_response], TRUE)
    /\ last' = Call("close", <<>>, now, messages)
    /\ UNCHANGED <<max_history, tools, system_prompt, ctor, disk>>

\* the caller stops pulling from generator i and drops it: the generator is
\* closed at the yield it is suspended on and nothing after that yield runs
Abandon(i) ==
    /\ gens[i].status \in Live
    /\ gens' = PutGen(i, [gens[i] EXCEPT !.status = "closed"], FALSE)
    /\ last' = Call("close", <<>>, now, messages)
    /\ UNCHANGED <<max_history, messages, metadata, now, tools, system_prompt,
                   ctor, disk>>

(* ---------------------------- save and load --------------------------- *)

\* the paths a caller passes: one with a directory part, one without
Paths == {"conversations/c.json", "c.json"}

\* os.path.dirname(filepath)
Dirname(path) == IF path = "conversations/c.json" THEN "conversations" ELSE ""

\* the messages as json.dump writes them
EncodeMessages(ms) ==
    [i \in 1..Len(ms) |-> [role |-> ms[i].role,
                           content |-> JsonEscape(ms[i].content),
                           timestamp |-> ms[i].timestamp]]

\* the messages as json.load reads them back
DecodeMessages(ms) ==
    [i \in 1..Len(ms) |-> [role |-> ms[i].role,
                           content |-> JsonUnescape(ms[i].content),
                           timestamp |-> ms[i].timestamp]]

\* files found in the conversations directory that this agent did not write:
\* one that is not JSON, one whose JSON is a list, one whose JSON is an object
\* without keys, and a conversation of three messages saved by another agent
ForeignPaths == {"conversations/bad.json", "conversations/list.json",
                 "conversations/empty.json", "conversations/long.json"}

\* a dict without keys
EmptyDict == [k \in {} |-> 0]

\* what open(filepath, 'r') finds: whether the file exists, the form of its
\* text ("object": a JSON object, "array": another JSON value, "malformed":
\* not JSON), and for an object its keys and their values; d is the file
\* save writes
FileAt(path, d) ==
    CASE path = "conversations/c.json" ->
            [exists |-> d.exists, form |-> "object", keys |-> {"metadata", "messages"},
             metadata |-> d.metadata, messages |-> d.messages]
      [] path = "conversations/bad.json" ->
            [exists |-> TRUE, form |-> "malformed", keys |-> {},
             metadata |-> EmptyDict, messages |-> <<>>]
      [] path = "conversations/list.json" ->
            [exists |-> TRUE, form |-> "array", keys |-> {},
             metadata |-> EmptyDict, messages |-> <<>>]
      [] path = "conversations/empty.json" ->
            [exists |-> TRUE, form |-> "object", keys |-> {},
             metadata |-> EmptyDict, messages |-> <<>>]
      [] path = "conversations/long.json" ->
            [exists |-> TRUE, form |-> "object", keys |-> {"metadata", "messages"},
             metadata |-> FreshMetadata(0),
             messages |-> << [role |-> "user", content |-> <<"h","i">>, timestamp |-> 2],
                             [role |-> "assistant", content |-> R_plain, timestamp |-> 4],
                             [role |-> "user", content |-> <<"b","y","e">>, timestamp |-> 6] >>]
      [] OTHER ->
            [exists |-> FALSE, form |-> "malformed", keys |-> {},
             metadata |-> EmptyDict, messages |-> <<>>]

\* ConversationMemory.save(filepath) on the memory fields M with d the file
\* written so far: os.makedirs raises FileNotFoundError on the empty
\* directory name of a bare file name, before anything is written
save(M, path, d) ==
    IF Dirname(path) = ""
    THEN [error |-> "FileNotFoundError", disk |-> d]
    ELSE [error |-> "none",
          disk |-> [exists |-> TRUE, metadata |-> M.metadata,
                    messages |-> EncodeMessages(M.messages)]]

\* a load that keeps the messages it had in front of those of the file
load_merges(M, file) ==
    IF ~file.exists THEN [error |-> "FileNotFoundError", M |-> M]
    ELSE IF file.form = "malformed" THEN [error |-> "JSONDecodeError", M |-> M]
    ELSE IF file.form # "object" THEN [error |-> "AttributeError", M |-> M]
    ELSE [error |-> "none",
          M |-> [messages |-> M.messages \o DecodeMessages(file.messages),
                 metadata |-> file.metadata, now |-> M.now]]

\* ConversationMemory.load(filepath) on the memory fields M, file being what
\* is found at filepath: open raises on a missing file, json.load on text that
\* is not JSON, data.get on JSON that is not an object; only then are the two
\* fields assigned, from the keys of the object or their defaults
load(M, file) ==
    IF ~file.exists THEN [error |-> "FileNotFoundError", M |-> M]
    ELSE IF file.form = "malformed" THEN [error |-> "JSONDecodeError", M |-> M]
    ELSE IF file.form # "object" THEN [error |-> "AttributeError", M |-> M]
    ELSE [error |-> "none",
          M |-> [messages |-> IF "messages" \in file.keys
                              THEN DecodeMessages(file.messages) ELSE <<>>,
                 metadata |-> IF "metadata" \in file.keys
                              THEN file.metadata ELSE EmptyDict,
                 now |-> M.now]]

\* Agent.save_conversation(filepath)
save_conversation(path) ==
    /\ LET Saved(r) ==
               /\ disk' = r.disk
               /\ last' = [Call("save_conversation", <<path>>, now, messages) EXCEPT
                              !.error = r.error]
       IN  Saved(save(Mem, path, disk))
    /\ UNCHANGED <<max_history, messages, metadata, now, tools, system_prompt,
                   ctor, gens>>

\* Agent.load_conversation(filepath)
load_conversation(path) ==
    /\ LET Loaded(r) ==
               /\ SetMem(r.M)
               /\ last' = [Call("load_conversation", <<path>>, now, messages) EXCEPT
                              !.error = r.error]
               /\ gens' = IF r.error = "none" THEN Touched(gens) ELSE gens
       IN  Loaded(load(Mem, FileAt(path, disk)))
    /\ UNCHANGED <<max_history, tools, system_prompt, ctor, disk>>

(* --------------------------- specifications --------------------------- *)

Next ==
    \/ \E message \in UserMessages : Chat(message)
    \/ \E message \in UserMessages : ChatProviderFails(message)
    \/ clear_history
    \/ MemoryClear
    \/ \E path \in Paths : save_conversation(path)
    \/ \E path \in Paths : load_conversation(path)

\* an Agent and the calls made on it without streaming
Spec == Init /\ [][Next]_vars

StreamingNext ==
    \/ \E message \in UserMessages : ChatStream(message)
    \/ \E i \in 1..Len(gens) : StreamStart(i)
    \/ \E i \in 1..Len(gens) : StreamNext(i)
    \/ \E i \in 1..Len(gens) : StreamProviderFails(i)
    \/ \E i \in 1..Len(gens) : StreamEnd(i)
    \/ \E i \in 1..Len(gens) : StreamTail(i)
    \/ \E i \in 1..Len(gens) : Abandon(i)
    \/ \E message \in UserMessages : ChatProviderFails(message)
    \/ clear_history

\* an Agent and the calls made on it and on the generators of its streaming
\* chats, in any interleaving
StreamSpec == Init /\ [][StreamingNext]_vars

FileNext ==
    \/ \E message \in UserMessages : Chat(message)
    \/ clear_history
    \/ \E path \in Paths : save_conversation(path)
    \/ \E path \in Paths \cup ForeignPaths : load_conversation(path)

\* an Agent whose conversations are saved to and loaded from files, among
\* them files it did not write
FileSpec == Init /\ [][FileNext]_vars

\* the message of the streaming chat whose interleavings are followed
Streamed == { <<"2","+","2","?">> }
\* the message of a chat that runs in between
Between == { <<"h","i">> }

InterleavedNext ==
    \/ \E message \in Streamed : ChatStream(message)
    \/ \E i \in 1..Len(gens) : StreamStart(i)
    \/ \E i \in 1..Len(gens) : StreamNext(i)
    \/ \E i \in 1..Len(gens) : StreamEnd(i)
    \/ \E i \in 1..Len(gens) : StreamTail(i)
    \/ \E message \in Between : Chat(message)
    \/ clear_history
    \/ load_conversation("conversations/long.json")

\* an Agent whose streaming chats are pulled to exhaustion while other
\* chats, clear_history and load_conversation run in between
InterleavedSpec == Init /\ [][InterleavedNext]_vars

\* the state after ConversationMemory(max_history), on its own
MemInit ==
    /\ max_history \in 0..MaxH
    /\ messages = <<>>
    /\ metadata = FreshMetadata(0)
    /\ now = 2
    /\ tools = <<>>
    /\ system_prompt = <<>>
    /\ ctor = [tools |-> <<>>, system_prompt |-> NoPrompt]
    /\ gens = <<>>
    /\ last = Call("new", <<>>, 0, <<>>)
    /\ disk = NoFile

\* memory.add_message(role, content) called directly
MemoryAdd(role, content) ==
    /\ now < MaxClock
    /\ SetMem(add_message(Mem, max_history, role, content))
    /\ last' = Call("add_message", content, now, messages)
    /\ gens' = Touched(gens)
    /\ UNCHANGED <<max_history, tools, system_prompt, ctor, disk>>

\* a content that json.dump has to escape: a quote, a backslash, a newline
Quoted == <<"a", DQ, "\\", NL>>

\* memory.save(path), then fresh = ConversationMemory() and fresh.load(path):
\* the messages the fresh memory holds are kept in last.loaded; when save
\* raises, the statements after it do not run
SaveThenLoadFresh(path) ==
    /\ now < MaxClock
    /\ LET Fresh == [messages |-> <<>>, metadata |-> FreshMetadata(now), now |-> now + 2]
           Loaded(s, r) ==
               /\ disk' = s.disk
               /\ now' = r.M.now
               /\ last' = [Call("save_load", <<path>>, now, messages) EXCEPT
                              !.error = r.error, !.loaded = r.M.messages]
           Saved(s) ==
               IF s.error # "none"
               THEN /\ disk' = s.disk
                    /\ now' = now
                    /\ last' = [Call("save_load", <<path>>, now, messages) EXCEPT
                                   !.error = s.error]
               ELSE Loaded(s, load(Fresh, FileAt(path, s.disk)))
       IN  Saved(save(Mem, path, disk))
    /\ UNCHANGED <<max_history, messages, metadata, tools, system_prompt, ctor, gens>>

MemNext ==
    \/ \E role \in Roles, content \in UserMessages \cup {Quoted} :
          MemoryAdd(role, content)
    \/ MemoryClear
    \/ \E path \in Paths : SaveThenLoadFresh(path)

\* a ConversationMemory and the calls made on it
MemSpec == MemInit /\ [][MemNext]_vars

\* the texts of at most n characters of cs
TextsUpTo(cs, n) == UNION {[1..k -> cs] : k \in 0..n}

\* a generated text calling the tool named name with the argument text args
CallText(name, args) == MARKER \o <<" ">> \o name \o <<"(">> \o args \o <<")">>

\* argument texts with every feature of the parameter syntax at once
ArgSamples ==
    { <<" ", DQ, "a", DQ, " ", "=", " ", SQ, "x", SQ, " ", ",", "z", "z", ",",
        "a", "=", DQ, DQ, "y", DQ, DQ>>,
      P_expression \o <<"=", "(", "1", "+", "2", ")", "*", "3">> }

\* the texts handed to the interpreter: calls of the calculator whose
\* argument text is any short text of the parameter syntax, or an expression
\* of digits, signs, parentheses and newlines
InterpTexts ==
    {CallText(T_calculator, a) :
        a \in TextsUpTo({"a", "=", ",", DQ, SQ, " "}, MaxArgLen) \cup ArgSamples}
    \cup {CallText(T_calculator, P_expression \o <<"=">> \o e) :
              e \in TextsUpTo({"1", "+", "(", ")", NL}, MaxArgLen)}

\* a generated text about to be handed to _handle_tool_call of an agent with
\* the three tools
InterpInit ==
    /\ max_history = 1
    /\ messages = <<>>
    /\ metadata = FreshMetadata(0)
    /\ now = 2
    /\ tools = AllTools
    /\ system_prompt = DefaultPrompt(AllTools)
    /\ ctor = [tools |-> AllTools, system_prompt |-> NoPrompt]
    /\ gens = <<>>
    /\ \E text \in InterpTexts : last = [Call("generated", <<>>, 0, <<>>) EXCEPT
                                            !.response = text]
    /\ disk = NoFile

\* self._handle_tool_call(response)
Interpret ==
    /\ last.op = "generated"
    /\ LET Handled(handled) ==
               last' = [last EXCEPT !.op = "handle_tool_call",
                                    !.error = IF handled.raised THEN "tool" ELSE "none",
                                    !.ret = handled.text, !.log = handled.log]
       IN  Handled(handle_tool_call(tools, last.response))
    /\ UNCHANGED <<max_history, messages, metadata, now, tools, system_prompt,
                   ctor, gens, disk>>

InterpNext == Interpret

\* the tool-call interpreter applied to one generated text
InterpSpec == InterpInit /\ [][InterpNext]_vars

(* ------------------------------ properties ---------------------------- *)

\* the {role, content} pairs of stored messages
Pairs(ms) == [i \in 1..Len(ms) |-> [role |-> ms[i].role, content |-> ms[i].content]]

\* a list cut to the cap 2*H from the front (a cap of 0 cuts nothing, see C1)
Capped(seq, H) ==
    IF H >= 1 /\ Len(seq) > 2 * H
    THEN SubSeq(seq, Len(seq) - 2 * H + 1, Len(seq)) ELSE seq

\* the stored form of the user message of a chat made at clock reading t0
UserMessage(message, t0) ==
    [role |-> "user", content |-> message, timestamp |-> t0]

\* the positions where the tool-call pattern matches
MatchStarts(t) == {p \in 1..Len(t) : MatchAt(t, p).ok}

\* the n-th smallest element of a set of integers
NthSmallest(S, n) == CHOOSE p \in S : Cardinality({q \in S : q < p}) = n - 1

\* entry is the result entry of a call of the tool named name
EntryBelongsTo(entry, name) ==
    \/ StartsAt(entry, 1, <<"Tool ">> \o name \o <<" result: ">>)
    \/ StartsAt(entry, 1, <<"Error executing ">> \o name \o <<": ">>)
    \/ entry = <<"Error: Tool '">> \o name \o <<"' not found">>

\* a non-streaming chat has just returned normally
ChatReturned == last.op = "chat" /\ last.error = "none"

\* C1: after every add_message on a ConversationMemory that started empty,
\* len(messages) <= 2 * max_history, for every max_history >= 0.
C1_TrimmingInvariant ==
    last.op = "add_message" => Len(messages) <= 2 * max_history

\* C2: a non-streaming chat that returns has appended the user message, then
\* called the provider exactly once with the stored {role, content} pairs in
\* stored order, the user message last, then appended exactly one assistant
\* message, whose content is the text returned (max_history >= 1).
C2_ChatOrder ==
    (ChatReturned /\ max_history >= 1) =>
        LET user == [role |-> "user", content |-> last.message]
            assistant == [role |-> "assistant", content |-> last.ret]
            sent == Capped(Append(Pairs(last.pre), user), max_history)
        IN  /\ last.calls = 1
            /\ last.context = sent
            /\ last.context[Len(last.context)] = user
            /\ Pairs(messages) = Capped(Append(sent, assistant), max_history)
            /\ messages[Len(messages)].role = "assistant"
            /\ messages[Len(messages)].content = last.ret

\* C2 witness: a chat returned on a memory that was already at its cap
C2_Witness ==
    /\ ChatReturned /\ max_history = 1
    /\ Len(last.pre) = 2
    /\ last.pre[2].role = "assistant"

\* C3: when the generated text has no "TOOL_CALL:" or the agent has no tools,
\* non-streaming chat returns the provider's text unchanged, stores exactly
\* that text as the assistant message, and executes no tool.
C3_Passthrough ==
    (ChatReturned /\ (~Contains(last.response, MARKER) \/ tools = <<>>)) =>
        /\ last.ret = last.response
        /\ messages[Len(messages)].role = "assistant"
        /\ messages[Len(messages)].content = last.response
        /\ last.log = <<>>

\* C3 witness: an agent without tools received a text with a tool call
C3_Witness ==
    /\ ChatReturned /\ tools = <<>>
    /\ last.response = R_calc

\* C4 as stated: for a text with k >= 1 matches the interpreter returns the
\* text unmodified, a blank line, and exactly k result lines, the i-th line
\* belonging to the i-th call in left-to-right order.
C4_ExactlyKLines ==
    (ChatReturned /\ tools # <<>> /\ MatchStarts(last.response) # {}) =>
        LET text == last.response
            k == Cardinality(MatchStarts(text))
            lines == Split(From(last.ret, Len(text) + 3), NL)
        IN  /\ StartsAt(last.ret, 1, text \o <<NL, NL>>)
            /\ Len(lines) = k
            /\ \A i \in 1..k :
                  EntryBelongsTo(lines[i],
                                 MatchAt(text, NthSmallest(MatchStarts(text), i)).tool_name)

\* C4 amended: for a text with k >= 1 matches the interpreter takes the k
\* calls in left-to-right order of appearance and returns the text unmodified,
\* a blank line, and exactly k result entries joined by single newlines, the
\* i-th entry belonging to the i-th call; an entry may span several lines.
C4_ResultsInCallOrder ==
    (ChatReturned /\ tools # <<>> /\ MatchStarts(last.response) # {}) =>
        LET text == last.response
            starts == MatchStarts(text)
            k == Cardinality(starts)
        IN  /\ Len(last.log) = k
            /\ \A i \in 1..k :
                  LET m == MatchAt(text, NthSmallest(starts, i))
                  IN  /\ last.log[i].tool_name = m.tool_name
                      /\ last.log[i].params_str = m.params_str
                      /\ EntryBelongsTo(last.log[i].entry, m.tool_name)
            /\ last.ret = text \o <<NL, NL>>
                          \o Join(<<NL>>, [i \in 1..k |-> last.log[i].entry])

\* C4 witness: a text with five calls was interpreted
C4_Witness ==
    /\ ChatReturned /\ tools # <<>>
    /\ last.response = R_calls
    /\ Len(last.log) = 5

\* C5: a matched call naming no tool of the roster yields the entry
\* "Error: Tool '<name>' not found", a call whose execute raises (parameters
\* missing or unexpected) yields "Error executing <name>: <message>", no
\* exception leaves chat, and every call of the response is processed.
C5_ToolFailuresContained ==
    (last.op = "chat" /\ last.error # "provider" /\ tools # <<>>
       /\ Contains(last.response, MARKER)) =>
        /\ last.error = "none"
        /\ Len(last.log) = Cardinality(MatchStarts(last.response))
        /\ \A i \in 1..Len(last.log) :
              LET c == last.log[i]
                  known == {k \in 1..Len(tools) : ToolName(tools[k]) = c.tool_name}
                  class == tools[CHOOSE k \in known : TRUE]
                  keys == {c.params[j].key : j \in 1..Len(c.params)}
              IN  /\ known = {} =>
                        c.entry = <<"Error: Tool '">> \o c.tool_name \o <<"' not found">>
                  /\ (/\ known # {}
                      /\ \/ ~(keys \subseteq {Required(class)} \cup Defaulted(class))
                         \/ Required(class) \notin keys) =>
                        /\ StartsAt(c.entry, 1,
                                    <<"Error executing ">> \o c.tool_name \o <<": ">>)
                        /\ Len(c.entry) > Len(c.tool_name) + 2

\* C5 witness: an unknown tool, then a raising call, then a successful call
C5_Witness ==
    /\ last.op = "chat"
    /\ \E i, j, k \in 1..Len(last.log) :
          /\ i < j /\ j < k
          /\ ~last.log[i].ran
          /\ StartsAt(last.log[j].entry, 1, <<"Error executing ">>)
          /\ StartsAt(last.log[k].entry, 1, <<"Tool ">>)

\* memory holds, as its newest messages, the user message of generator g and
\* nothing after it
EndsWithUser(g) ==
    /\ messages # <<>>
    /\ messages[Len(messages)] = UserMessage(g.message, g.t0)

\* memory is what the append of the user message of a call left: the messages
\* before the call followed by the user message, cut to the cap
OnlyUserAdded(pre, message, t0) ==
    messages = Capped(Append(pre, UserMessage(message, t0)), max_history)

\* C6: a streaming chat whose fragments f1..fn carry no tool-call marker
\* yields exactly f1..fn in provider order and nothing else, appends nothing
\* before the generator is exhausted, and then appends one assistant message
\* whose content is f1+...+fn.
C6_StreamPassthrough ==
    \A i \in 1..Len(gens) :
        LET g == gens[i]
            n == Len(messages)
        IN  /\ g.status \in {"created", "suspended"} =>
                  /\ g.yielded = g.emitted
                  /\ g.commits = 0
                  /\ g.clean => EndsWithUser(g)
            /\ (g.status = "done" /\ ~Contains(Concat(g.emitted), MARKER)) =>
                  /\ g.yielded = g.emitted
                  /\ g.commits = 1
                  /\ g.committed = Concat(g.emitted)
                  /\ g.clean =>
                        /\ n >= 2
                        /\ messages[n - 1] = UserMessage(g.message, g.t0)
                        /\ messages[n].role = "assistant"
                        /\ messages[n].content = Concat(g.emitted)

\* C6 witness: the fragments "Hel", "lo" were streamed to exhaustion
C6_Witness ==
    \E i \in 1..Len(gens) :
        /\ gens[i].status = "done" /\ gens[i].clean
        /\ gens[i].emitted = Cut(R_plain)

\* C7: when the streamed text T contains a tool call and tools are
\* configured, the generator yields after the provider fragments exactly one
\* trailing fragment, a blank line followed by the result entries R, and the
\* assistant message stored is T + blank line + R, the message non-streaming
\* chat stores for the same T.
C7_StreamCommitsAugmentedText ==
    \A i \in 1..Len(gens) :
        LET g == gens[i]
            T == Concat(g.emitted)
            R == Join(<<NL>>, [j \in 1..Len(g.log) |-> g.log[j].entry])
        IN  (g.status = "done" /\ tools # <<>> /\ MatchStarts(T) # {}) =>
                /\ g.yielded = Append(g.emitted, <<NL, NL>> \o R)
                /\ g.committed = T \o <<NL, NL>> \o R
                /\ g.committed = handle_tool_call(tools, T).text

\* C8: when the caller stops pulling before the generator is exhausted, no
\* assistant message of that exchange is ever appended: memory stays what the
\* append of the user message left.
C8_AbandonedNeverCommits ==
    \A i \in 1..Len(gens) :
        LET g == gens[i]
        IN  g.status = "closed" =>
                /\ g.commits = 0
                /\ g.clean => OnlyUserAdded(g.pre, g.message, g.t0)

\* C8 witness: the caller stopped between two fragments
C8_Witness ==
    \E i \in 1..Len(gens) :
        /\ gens[i].status = "closed" /\ gens[i].clean
        /\ gens[i].yielded # <<>>
        /\ gens[i].pending # <<>>

\* C9: when the provider fails, in generate or in stream_generate before or
\* between fragments, the caller gets the error, the provider was called once,
\* and no assistant message is appended: memory is what the append of the
\* user message left.
C9_ProviderFailure ==
    /\ (last.op = "chat" /\ last.error = "provider") =>
          /\ last.calls = 1
          /\ OnlyUserAdded(last.pre, last.message, last.t0)
    /\ \A i \in 1..Len(gens) :
          LET g == gens[i]
          IN  (g.status = "failed" /\ g.error = "provider") =>
                  /\ g.calls = 1
                  /\ g.commits = 0
                  /\ g.clean => OnlyUserAdded(g.pre, g.message, g.t0)
    /\ (last.op = "next" /\ last.error = "provider") =>
          /\ last.ret = <<>>
          /\ \E i \in 1..Len(gens) : gens[i].status = "failed"

\* C9 witness: the provider failed after its first fragment
C9_Witness ==
    \E i \in 1..Len(gens) :
        /\ gens[i].status = "failed" /\ gens[i].error = "provider"
        /\ gens[i].clean
        /\ gens[i].yielded # <<>>

\* memory holds exactly the system message with the given content
OnlySystemMessage(content) ==
    /\ Len(messages) = 1
    /\ messages[1].role = "system"
    /\ messages[1].content = content

\* C10 as stated: right after construction and right after every
\* clear_history, memory holds exactly one message, the system message whose
\* content is the agent's system_prompt, which is the override if one was
\* supplied and the default prompt otherwise; clear() alone leaves memory
\* empty.
C10_ReseedSuppliedOverride ==
    /\ last.op \in {"init", "clear_history"} =>
          /\ OnlySystemMessage(system_prompt)
          /\ system_prompt = IF ctor.system_prompt.given
                             THEN ctor.system_prompt.text
                             ELSE DefaultPrompt(ctor.tools)
    /\ last.op = "clear" => messages = <<>>

\* C10 amended: as C10, the system_prompt being the override if a non-empty
\* one was supplied and the default prompt otherwise.
C10_ReseedNonEmptyOverride ==
    /\ last.op \in {"init", "clear_history"} =>
          /\ OnlySystemMessage(system_prompt)
          /\ system_prompt = IF ctor.system_prompt.given
                                /\ Len(ctor.system_prompt.text) > 0
                             THEN ctor.system_prompt.text
                             ELSE DefaultPrompt(ctor.tools)
    /\ last.op = "clear" => messages = <<>>

\* C10 witness: clear_history ran on a loaded conversation of several messages
C10_Witness ==
    /\ last.op = "clear_history"
    /\ Len(last.pre) >= 2
    /\ disk.exists /\ Pairs(last.pre) = Pairs(DecodeMessages(disk.messages))

\* C11: ConversationMemory.load is all-or-nothing. When the path does not
\* exist or the file does not hold a JSON object, the call fails and leaves
\* messages and metadata as they were; when it succeeds, messages and metadata
\* are those of the file and nothing of the previous conversation is kept.
C11_LoadAllOrNothing ==
    [][ last'.op = "load_conversation" =>
            LET file == FileAt(last'.message[1], disk)
            IN  IF ~file.exists \/ file.form # "object"
                THEN /\ last'.error # "none"
                     /\ messages' = messages
                     /\ metadata' = metadata
                ELSE /\ last'.error = "none"
                     /\ messages' = (IF "messages" \in file.keys
                                     THEN DecodeMessages(file.messages) ELSE <<>>)
                     /\ metadata' = (IF "metadata" \in file.keys
                                     THEN file.metadata ELSE EmptyDict) ]_vars

\* C11 witness: a load of the saved file replaced a different conversation
C11_Witness ==
    /\ last.op = "load_conversation" /\ last.error = "none"
    /\ last.message = <<"conversations/c.json">>
    /\ Len(last.pre) >= 2
    /\ \A i \in 1..Len(messages) : \A j \in 1..Len(last.pre) : messages[i] # last.pre[j]
    /\ messages # <<>>

\* C12: for every memory reached by add_message and clear, save(path)
\* followed at once by load(path) on a fresh ConversationMemory gives the
\* fresh memory the same messages (roles, contents and timestamps, in order),
\* and save leaves the saved memory unchanged.
C12_RoundTrip ==
    last.op = "save_load" =>
        /\ last.error = "none"
        /\ last.loaded = messages
        /\ messages = last.pre

\* the text carries "TOOL_CALL:" but no match of the tool-call pattern
Malformed(text) == Contains(text, MARKER) /\ MatchStarts(text) = {}

\* the non-streaming half of C13: chat returns and stores the text unchanged
MalformedChatPassthrough ==
    (last.op = "chat" /\ last.error # "provider" /\ Malformed(last.response)) =>
        /\ last.error = "none"
        /\ last.ret = last.response
        /\ messages[Len(messages)].role = "assistant"
        /\ messages[Len(messages)].content = last.response

\* C13: for a generated text with "TOOL_CALL:" but no match of the pattern,
\* chat is a passthrough in both modes: non-streaming returns and stores the
\* text unchanged; streaming yields only the provider's fragments, reports
\* no error, and stores their concatenation unchanged.
C13_MalformedPassthrough ==
    /\ MalformedChatPassthrough
    /\ \A i \in 1..Len(gens) :
          LET g == gens[i]
          IN  (g.status \in {"tail", "done", "failed"} /\ g.error # "provider"
                 /\ Malformed(Concat(g.emitted))) =>
                  /\ g.error = "none"
                  /\ g.yielded = g.emitted
                  /\ g.status = "done" => g.committed = Concat(g.emitted)

\* the least and the greatest element of a non-empty set of integers
Least(S) == CHOOSE p \in S : \A q \in S : p <= q
Greatest(S) == CHOOSE p \in S : \A q \in S : q <= p

\* t without its leading and trailing characters of cs, however many
Stripped(t, cs) ==
    LET keep == {i \in 1..Len(t) : t[i] \notin cs}
    IN  IF keep = {} THEN <<>> ELSE SubSeq(t, Least(keep), Greatest(keep))

\* t without one leading and one trailing character of cs, where present
OneLayerOff(t, cs) ==
    LET a == IF t # <<>> /\ t[1] \in cs THEN Tail(t) ELSE t
    IN  IF a # <<>> /\ a[Len(a)] \in cs THEN SubSeq(a, 1, Len(a) - 1) ELSE a

Unquoted(t) == Stripped(t, {DQ, SQ})
UnquotedOnce(t) == OneLayerOff(t, {DQ, SQ})

\* params is the dict the argument text params_str stands for: the text is
\* cut at every comma, a segment without "=" counts for nothing, a segment
\* with one gives the key before its first "=" and the value after it, both
\* without surrounding whitespace and then without quotes as Unquote takes
\* them off, and a key given several times has the value given last
ParamsAre(params, params_str, Unquote(_)) ==
    LET s == Stripped(params_str, SpaceChars)
        commas == {i \in 1..Len(s) : s[i] = ","}
        n == Cardinality(commas) + 1
        Seg(j) == SubSeq(s,
                         IF j = 1 THEN 1 ELSE NthSmallest(commas, j - 1) + 1,
                         IF j = n THEN Len(s) ELSE NthSmallest(commas, j) - 1)
        Eqs(j) == {i \in 1..Len(Seg(j)) : Seg(j)[i] = "="}
        valid == {j \in 1..n : Eqs(j) # {}}
        Key(j) == Unquote(Stripped(SubSeq(Seg(j), 1, Least(Eqs(j)) - 1), SpaceChars))
        Val(j) == Unquote(Stripped(SubSeq(Seg(j), Least(Eqs(j)) + 1, Len(Seg(j))),
                                   SpaceChars))
    IN  /\ {params[i].key : i \in 1..Len(params)} = {Key(j) : j \in valid}
        /\ Len(params) = Cardinality({Key(j) : j \in valid})
        /\ \A i \in 1..Len(params) :
              params[i].value = Val(Greatest({j \in valid : Key(j) = params[i].key}))

\* C14 as stated: the parameters of a call are its argument text split on
\* every comma and each segment on its first "=", key and value stripped of
\* surrounding whitespace and of a single layer of surrounding quotes, the
\* value kept as text, segments without "=" dropped, the last value kept
\* for a repeated key.
C14_SingleQuoteLayer ==
    last.op = "handle_tool_call" =>
        \A i \in 1..Len(last.log) :
            last.log[i].ran =>
                ParamsAre(last.log[i].params, last.log[i].params_str, UnquotedOnce)

\* C14 amended: as above, but key and value are stripped of every leading
\* and trailing quote character, not of a single layer.
C14_EveryQuoteLayer ==
    last.op = "handle_tool_call" =>
        \A i \in 1..Len(last.log) :
            last.log[i].ran =>
                ParamsAre(last.log[i].params, last.log[i].params_str, Unquoted)

\* C14 witness: an argument text with spaces, both quotes, a doubled layer
\* of quotes, a segment without "=" and a repeated key was parsed
C14_Witness ==
    /\ last.op = "handle_tool_call"
    /\ Len(last.log) = 1 /\ last.log[1].ran
    /\ last.log[1].params_str =
          <<" ", DQ, "a", DQ, " ", "=", " ", SQ, "x", SQ, " ", ",", "z", "z", ",",
            "a", "=", DQ, DQ, "y", DQ, DQ>>
    /\ last.log[1].params = <<[key |-> <<"a">>, value |-> <<"y">>]>>

\* C15: trimming is positional. With max_history >= 1, whenever the appends
\* of a chat take the length past 2 * max_history, what is stored afterwards
\* is exactly the 2 * max_history most recently appended messages, in
\* insertion order and whatever their roles; so the system message at the
\* front is dropped once 2 * max_history messages stand behind it, and no
\* chat puts a system message back.
C15_PositionalTrimming ==
    [][ (max_history >= 1 /\ last'.op = "chat") =>
            LET user == UserMessage(last'.message, last'.t0)
                assistant == [role |-> "assistant", content |-> last'.ret,
                              timestamp |-> last'.t0 + 2]
                all == messages \o (IF last'.error = "none"
                                    THEN <<user, assistant>> ELSE <<user>>)
                n == Len(all)
                cap == 2 * max_history
            IN  /\ messages' = IF n > cap THEN SubSeq(all, n - cap + 1, n) ELSE all
                /\ (n > cap /\ messages # <<>> /\ messages[1].role = "system") =>
                      \A i \in 1..Len(messages') : messages'[i].role # "system"
                /\ \A i \in 1..Len(messages') :
                      messages'[i].role = "system" =>
                          \E j \in 1..Len(messages) : messages[j] = messages'[i] ]_vars

\* C15 witness: a chat has pushed the system message out of a memory that is
\* now full of user and assistant messages
C15_Witness ==
    /\ ChatReturned /\ max_history >= 1
    /\ last.pre # <<>> /\ last.pre[1].role = "system"
    /\ Len(messages) = 2 * max_history
    /\ \A i \in 1..Len(messages) : messages[i].role # "system"

\* C16: in every state an Agent with max_history >= 1 reaches by
\* construction, chat, clear_history and load_conversation, len(memory) <=
\* 2 * max_history; also after loading a file of more messages than that.
\* (For max_history = 0 the bound already fails at construction, see C1.)
C16_CapAfterLoad ==
    max_history >= 1 => Len(messages) <= 2 * max_history

\* a pull has just run generator g to its end and appended its message
JustExhausted(g) ==
    /\ last.op = "next" /\ last.error = "StopIteration"
    /\ g.status = "done"
    /\ messages # <<>>
    /\ messages[Len(messages)] = [role |-> "assistant", content |-> g.committed,
                                  timestamp |-> last.t0]

\* C17: chat(stream=True) appends the user message and takes the provider
\* context when it is called, before any fragment is pulled; the assistant
\* message is appended to what memory holds when the generator is exhausted.
\* So with other chats, clear_history or load_conversation in between, the
\* provider still receives the context taken at the call, the assistant
\* message lands behind everything appended in the meantime, and after a
\* clear_history in between memory is [system, assistant] without the user
\* message.
C17_SnapshotThenLateAppend ==
    /\ \A i \in 1..Len(gens) :
          LET g == gens[i]
              snapshot == Pairs(Capped(Append(g.pre, UserMessage(g.message, g.t0)),
                                       max_history))
          IN  /\ g.context = snapshot
              /\ g.calls = 1 => g.sent = snapshot
              /\ g.calls = 0 => g.commits = 0
    /\ last.op = "chat_stream" =>
          /\ messages = Capped(Append(last.pre, UserMessage(last.message, last.t0)),
                               max_history)
          /\ gens # <<>>
          /\ gens[Len(gens)].status = "created"
          /\ gens[Len(gens)].calls = 0
          /\ gens[Len(gens)].yielded = <<>>
          /\ gens[Len(gens)].context = last.context
    /\ (last.op = "next" /\ last.error = "StopIteration") =>
          \E i \in 1..Len(gens) :
              /\ JustExhausted(gens[i])
              /\ messages = Capped(Append(last.pre, messages[Len(messages)]),
                                   max_history)
              /\ (Len(last.pre) = 1 /\ last.pre[1].role = "system") =>
                    /\ Len(messages) = 2
                    /\ messages[1] = last.pre[1]

\* C17 witness: between a streaming chat and its exhaustion clear_history
\* ran and left the system message alone; after the exhaustion memory is
\* [system, assistant] and the user message the provider answered is not in it
C17_Witness ==
    \E i \in 1..Len(gens) :
        LET g == gens[i]
        IN  /\ JustExhausted(g) /\ ~g.clean
            /\ Len(last.pre) = 1 /\ last.pre[1].role = "system"
            /\ Len(messages) = 2 /\ messages[1] = last.pre[1]
            /\ g.sent[Len(g.sent)] = [role |-> "user", content |-> g.message]
            /\ \A k \in 1..Len(messages) : messages[k].role # "user"

\* C18: the argument text of a tool call is the text between the opening
\* parenthesis and the first ")" after it on the same line. A call whose
\* argument text holds a ")" of its own is therefore cut there: the tool runs
\* with the parameters of the cut text and nothing behind that ")" reaches
\* it. (When a newline comes before the first ")" there is no call at all.)
C18_CutAtFirstCloser ==
    last.op = "handle_tool_call" =>
        LET t == last.response
            open == Len(MARKER) + 1 + Len(T_calculator) + 1
            first == Least({q \in (open + 1)..Len(t) : t[q] = ")"})
            arg == SubSeq(t, open + 1, first - 1)
        IN  /\ t[open] = "("
            /\ IF \E q \in 1..Len(arg) : arg[q] = NL
               THEN last.log = <<>> /\ last.ret = t
               ELSE /\ Len(last.log) = 1
                    /\ last.log[1].tool_name = T_calculator
                    /\ last.log[1].params_str = arg
                    /\ last.log[1].ran
                    /\ ParamsAre(last.log[1].params, arg, Unquoted)
                    /\ \A i \in 1..Len(last.log[1].params) :
                          \A q \in 1..Len(last.log[1].params[i].value) :
                              last.log[1].params[i].value[q] # ")"

\* C18 witness: TOOL_CALL: calculator(expression=(1+2)*3) was interpreted;
\* the calculator ran with expression "(1+2" and reported an error
C18_Witness ==
    /\ last.op = "handle_tool_call"
    /\ last.response = CallText(T_calculator,
                                P_expression \o <<"=", "(", "1", "+", "2", ")", "*", "3">>)
    /\ Len(last.log) = 1 /\ last.log[1].ran
    /\ last.log[1].params_str = P_expression \o <<"=", "(", "1", "+", "2">>
    /\ last.log[1].params = <<[key |-> P_expression, value |-> <<"(", "1", "+", "2">>]>>
    /\ last.log[1].entry #
          (<<"Tool ">> \o T_calculator \o <<" result: ">>
             \o JsonDump(CalculatorExecute(<<"(", "1", "+", "2", ")", "*", "3">>), 0))

====
